---- MODULE Spec2Model ----
(***************************************************************************)
(* State-machine model of CelebA.py: the fine-tuning script's entry point  *)
(* (main), its training loop (train), its loss-curve renderer (make_plots) *)
(* and its evaluation loop (evaluate).  Tensors are sequences, files are   *)
(* sequences of lines (the log, the console) or a single value that each   *)
(* write replaces (the loss-curve image, the checkpoint).                  *)
(***************************************************************************)
EXTENDS Integers, Sequences, FiniteSets, TLC

\* ------------------------------------------------------------------ bounds
MaxEpochs == 2          \* num_epochs ranges over 1..MaxEpochs
MaxBatch == 2           \* batch_size ranges over 1..MaxBatch
MaxTrainN == 201        \* largest training split
MaxValN == 2            \* validation split sizes range over 0..MaxValN

\* ------------------------------------------------------- program constants
LogInterval == 100      \* train: if (i+1) % 100 == 0
num_classes == 2        \* main: num_classes = 2
PosLabel == 1           \* f1_score's default pos_label

\* Source encoding of one attribute of the annotation vector.
AttrValues == {-1, 1}

\* Losses in units of 1e-5; none is a rounding tie of the 4-decimal format.
LossValues == {69314, 69318}

\* Sizes of the training split that are explored.
TrainSizes == {0, 1, LogInterval, MaxTrainN}

NoFile == <<"absent">>
Raise == <<"raise">>

VARIABLES
    num_epochs,     \* main: num_epochs
    batch_size,     \* main: batch_size
    train_n,        \* len(train_dataset)
    val_n,          \* len(val_dataset), as the sampler reads it when the loop starts
    run_train,      \* main: whether the call of train is active
    pc,             \* position of the program
    exc,            \* the exception that ended the program, if any
    epoch,          \* train: loop variable of the epoch loop
    i,              \* train: enumerate index; evaluate: samples delivered
    labels,         \* the batch's attribute rows, columns 2 and 20 only
    label,          \* labels[:, 2]
    cov_attr,       \* (labels[:, 20] + 1) // 2
    predicted,      \* evaluate: arg-max class of each element of the batch
    loss,           \* train: loss.item() of the current batch
    ops,            \* train: the steps performed on the current batch
    grad,           \* the .grad buffers: the batches whose loss they hold
    params,         \* the parameter set: the gradients applied, in order
    training,       \* model.training
    grad_enabled,   \* torch.is_grad_enabled()
    loss_hist,      \* train: loss_hist
    step_hist,      \* train: step_hist
    figure,         \* matplotlib's current figure: the curves plotted on it
    plot_file,      \* <experiment_name>.png
    plot_writes,    \* number of savefig calls
    ckpt,           \* <experiment_name>.ckpt
    ckpt_writes,    \* number of torch.save calls
    console,        \* lines written to stdout
    logfile,        \* lines of <experiment_name>.txt
    val_seen,       \* labels[:, 2] of the validation samples delivered so far
    y_true,         \* evaluate: y_true
    y_pred,         \* evaluate: y_pred
    correct,        \* evaluate: correct
    total           \* evaluate: total

vars == <<num_epochs, batch_size, train_n, val_n, run_train, pc, exc, epoch, i,
          labels, label, cov_attr, predicted, loss, ops, grad, params,
          training, grad_enabled, loss_hist, step_hist, figure, plot_file,
          plot_writes, ckpt, ckpt_writes, console, logfile, val_seen,
          y_true, y_pred, correct, total>>

cfgVars == <<num_epochs, batch_size, train_n, run_train>>
batchVars == <<labels, label, cov_attr>>
trainVars == <<loss_hist, step_hist, figure, plot_file, plot_writes,
               ckpt, ckpt_writes>>
evalVars == <<val_n, val_seen, y_true, y_pred, correct, total, predicted>>
outVars == <<console, logfile>>

\* ----------------------------------------------------------------- helpers
Min(a, b) == IF a <= b THEN a ELSE b

RECURSIVE Gcd(_, _)
Gcd(a, b) == IF b = 0 THEN a ELSE Gcd(b, a % b)

\* The value of the true division a / b (b > 0), as a fraction in lowest terms.
Ratio(a, b) == <<a \div Gcd(a, b), b \div Gcd(a, b)>>

\* len(loader): DataLoader with drop_last left at False.
NumBatches(n, b) == (n + b - 1) \div b

\* Size of the batch that starts after `done` samples of a split of n.
BatchSize(n, b, done) == Min(b, n - done)

\* One row of the batch: the two attribute columns the loops read.
Rows(s) == [1..s -> [attr : AttrValues, gender : AttrValues]]

\* Remap with the parentheses lost: cov_attr + 1 // 2.
RemapNoParens(v) == v + (1 \div 2)

\* cov_attr = (cov_attr + 1) // 2
Remap(v) == (v + 1) \div 2

\* labels[:, 2]
LabelOf(rows) == [k \in 1..Len(rows) |-> rows[k].attr]

\* (labels[:, 20] + 1) // 2
CovOf(rows) == [k \in 1..Len(rows) |-> Remap(rows[k].gender)]

\* nn.CrossEntropyLoss accepts class indices 0..C-1 only (ignore_index = -100).
ValidTarget(t) == \A k \in 1..Len(t) : t[k] \in 0..(num_classes - 1)

\* '{:.4f}'.format(loss): units of 1e-5 rounded to units of 1e-4.
Fmt4(l) == (l + 5) \div 10

\* The test on the 0-based index: if i % 100 == 0.
IsLogStepZeroBased(idx) == idx % LogInterval = 0

\* if (i+1) % 100 == 0
IsLogStep(idx) == (idx + 1) % LogInterval = 0

\* 'Epoch: [{}/{}], Step[{}/{}], Loss:{:.4f}'.format(...)
ProgressLine(e, ne, idx, len, l) ==
    [kind |-> "progress", epoch |-> e + 1, num_epochs |-> ne,
     step |-> idx + 1, len |-> len, loss |-> Fmt4(l)]

\* make_plots without plt.clf(): the figure keeps its curves.
MakePlotsNoClf(fig, sh, lh, e) ==
    [file |-> [title |-> e + 1, curves |-> Append(fig, [xs |-> sh, ys |-> lh])],
     fig |-> Append(fig, [xs |-> sh, ys |-> lh])]

\* make_plots: plot on the current figure, title, savefig, clf.
MakePlots(fig, sh, lh, e) ==
    [file |-> [title |-> e + 1, curves |-> Append(fig, [xs |-> sh, ys |-> lh])],
     fig |-> <<>>]

\* --------------------------------------------------------------------- Init
Init ==
    /\ num_epochs \in 1..MaxEpochs
    /\ batch_size \in 1..MaxBatch
    /\ run_train \in BOOLEAN
    /\ train_n \in (IF run_train THEN TrainSizes ELSE {MaxTrainN})
    /\ val_n = 0
    /\ pc = "main"
    /\ exc = "none"
    /\ epoch = 0
    /\ i = 0
    /\ labels = <<>>
    /\ label = <<>>
    /\ cov_attr = <<>>
    /\ predicted = <<>>
    /\ loss = 0
    /\ ops = <<>>
    /\ grad = {}
    /\ params = <<>>
    /\ training = TRUE
    /\ grad_enabled = TRUE
    /\ loss_hist = <<>>
    /\ step_hist = <<>>
    /\ figure = <<>>
    /\ plot_file = NoFile
    /\ plot_writes = 0
    /\ ckpt = NoFile
    /\ ckpt_writes = 0
    /\ console = <<>>
    /\ logfile = <<>>
    /\ val_seen = <<>>
    /\ y_true = <<>>
    /\ y_pred = <<>>
    /\ correct = 0
    /\ total = 0

\* --------------------------------------------------------------------- main
\* main: the hardcoded toggle between train and evaluate.
Main ==
    /\ pc = "main"
    /\ pc' = IF run_train THEN "t_epoch" ELSE "e_begin"
    /\ UNCHANGED <<cfgVars, exc, epoch, i, batchVars, loss, ops, grad, params,
                   training, grad_enabled, trainVars, outVars, evalVars>>

\* -------------------------------------------------------------------- train
\* for epoch in range(num_epochs): loss_hist = []; step_hist = []
TrainEpoch ==
    /\ pc = "t_epoch"
    /\ IF epoch < num_epochs
       THEN /\ loss_hist' = <<>>
            /\ step_hist' = <<>>
            /\ i' = 0
            /\ pc' = "t_fetch"
       ELSE /\ pc' = "t_save"
            /\ UNCHANGED <<loss_hist, step_hist, i>>
    /\ UNCHANGED <<cfgVars, exc, epoch, batchVars, loss, ops, grad, params,
                   training, grad_enabled, figure, plot_file, plot_writes,
                   ckpt, ckpt_writes, outVars, evalVars>>

\* for i, (images, labels) in enumerate(train_loader): label, cov_attr
TrainFetch ==
    /\ pc = "t_fetch"
    /\ IF i * batch_size < train_n
       THEN /\ \E rows \in Rows(BatchSize(train_n, batch_size, i * batch_size)) :
                 /\ labels' = rows
                 /\ label' = LabelOf(rows)
                 /\ cov_attr' = CovOf(rows)
            /\ ops' = <<>>
            /\ pc' = "t_forward"
       ELSE /\ pc' = "t_plot"
            /\ UNCHANGED <<batchVars, ops>>
    /\ UNCHANGED <<cfgVars, exc, epoch, i, loss, grad, params, training,
                   grad_enabled, trainVars, outVars, evalVars>>

\* outputs = model(images)
TrainForward ==
    /\ pc = "t_forward"
    /\ ops' = Append(ops, "forward")
    /\ pc' = "t_loss"
    /\ UNCHANGED <<cfgVars, exc, epoch, i, batchVars, loss, grad, params, training,
                   grad_enabled, trainVars, outVars, evalVars>>

\* loss = criterion(outputs, label)
TrainLoss ==
    /\ pc = "t_loss"
    /\ IF ValidTarget(label)
       THEN /\ loss' \in LossValues
            /\ ops' = Append(ops, "loss")
            /\ pc' = "t_zero"
            /\ UNCHANGED exc
       ELSE /\ pc' = "error"
            /\ exc' = "IndexError: target out of bounds"
            /\ UNCHANGED <<loss, ops>>
    /\ UNCHANGED <<cfgVars, epoch, i, batchVars, grad, params, training,
                   grad_enabled, trainVars, outVars, evalVars>>

\* The batch step with optimizer.zero_grad() left out.
TrainNoZeroGrad ==
    /\ pc = "t_zero"
    /\ grad' = grad
    /\ ops' = Append(ops, "zero_grad")
    /\ pc' = "t_backward"
    /\ UNCHANGED <<cfgVars, exc, epoch, i, batchVars, loss, params, training,
                   grad_enabled, trainVars, outVars, evalVars>>

\* optimizer.zero_grad()
TrainZeroGrad ==
    /\ pc = "t_zero"
    /\ grad' = {}
    /\ ops' = Append(ops, "zero_grad")
    /\ pc' = "t_backward"
    /\ UNCHANGED <<cfgVars, exc, epoch, i, batchVars, loss, params, training,
                   grad_enabled, trainVars, outVars, evalVars>>

\* loss.backward(): gradients accumulate into the .grad buffers
TrainBackward ==
    /\ pc = "t_backward"
    /\ grad' = grad \cup {<<epoch, i>>}
    /\ ops' = Append(ops, "backward")
    /\ pc' = "t_step"
    /\ UNCHANGED <<cfgVars, exc, epoch, i, batchVars, loss, params, training,
                   grad_enabled, trainVars, outVars, evalVars>>

\* optimizer.step()
TrainStep ==
    /\ pc = "t_step"
    /\ params' = Append(params, grad)
    /\ ops' = Append(ops, "step")
    /\ pc' = "t_log"
    /\ UNCHANGED <<cfgVars, exc, epoch, i, batchVars, loss, grad, training,
                   grad_enabled, trainVars, outVars, evalVars>>

\* if (i+1) % 100 == 0: print, print to the log file, append to the histories
TrainLog ==
    /\ pc = "t_log"
    /\ IF IsLogStep(i)
       THEN LET line == ProgressLine(epoch, num_epochs, i,
                                     NumBatches(train_n, batch_size), loss)
            IN  /\ console' = Append(console, line)
                /\ logfile' = Append(logfile, line)
                /\ loss_hist' = Append(loss_hist, loss)
                /\ step_hist' = Append(step_hist, i + 1)
       ELSE UNCHANGED <<console, logfile, loss_hist, step_hist>>
    /\ i' = i + 1
    /\ pc' = "t_fetch"
    /\ UNCHANGED <<cfgVars, exc, epoch, batchVars, loss, ops, grad, params, training,
                   grad_enabled, figure, plot_file, plot_writes, ckpt,
                   ckpt_writes, evalVars>>

\* torch.save indented into the epoch loop: a checkpoint per epoch.
TrainPlotAndSave ==
    /\ pc = "t_plot"
    /\ LET r == MakePlots(figure, step_hist, loss_hist, epoch)
       IN  /\ plot_file' = r.file
           /\ figure' = r.fig
    /\ plot_writes' = plot_writes + 1
    /\ ckpt' = params
    /\ ckpt_writes' = ckpt_writes + 1
    /\ epoch' = epoch + 1
    /\ pc' = "t_epoch"
    /\ UNCHANGED <<cfgVars, exc, i, batchVars, loss, ops, grad, params, training,
                   grad_enabled, loss_hist, step_hist, outVars, evalVars>>

\* make_plots(step_hist, loss_hist, epoch)
TrainPlot ==
    /\ pc = "t_plot"
    /\ LET r == MakePlots(figure, step_hist, loss_hist, epoch)
       IN  /\ plot_file' = r.file
           /\ figure' = r.fig
    /\ plot_writes' = plot_writes + 1
    /\ epoch' = epoch + 1
    /\ pc' = "t_epoch"
    /\ UNCHANGED <<cfgVars, exc, i, batchVars, loss, ops, grad, params, training,
                   grad_enabled, loss_hist, step_hist, ckpt, ckpt_writes,
                   outVars, evalVars>>

\* torch.save(model.state_dict(), experiment_name+'.ckpt'); train returns and
\* the locals that held its last batch are dropped
TrainSave ==
    /\ pc = "t_save"
    /\ ckpt' = params
    /\ ckpt_writes' = ckpt_writes + 1
    /\ labels' = <<>>
    /\ label' = <<>>
    /\ cov_attr' = <<>>
    /\ ops' = <<>>
    /\ pc' = "e_begin"
    /\ UNCHANGED <<cfgVars, exc, epoch, i, loss, grad, params, training,
                   grad_enabled, loss_hist, step_hist, figure, plot_file,
                   plot_writes, outVars, evalVars>>

\* ----------------------------------------------------------------- f1_score
\* Number of positions k with yt[k] = a and yp[k] = b.
CountPairs(yt, yp, a, b) ==
    Cardinality({k \in 1..Len(yt) : yt[k] = a /\ yp[k] = b})

\* unique_labels(y_true, y_pred)
PresentLabels(yt, yp) ==
    {yt[k] : k \in 1..Len(yt)} \cup {yp[k] : k \in 1..Len(yp)}

\* Binary F1 of the positive class: 2 TP / (2 TP + FP + FN), 0 when undefined.
F1Value(yt, yp) ==
    LET tp == CountPairs(yt, yp, PosLabel, PosLabel)
        pp == Cardinality({k \in 1..Len(yp) : yp[k] = PosLabel})
        ap == Cardinality({k \in 1..Len(yt) : yt[k] = PosLabel})
    IN  IF pp + ap = 0 THEN Ratio(0, 1) ELSE Ratio(2 * tp, pp + ap)

\* The outcomes of f1_score(y_true, y_pred) with average='binary': the value,
\* or a ValueError when the targets are not binary (more than two labels
\* present) or the positive label is not one of two present labels.  On
\* empty input the library either raises or returns 0, by its version.
F1Outcomes(yt, yp) ==
    LET present == PresentLabels(yt, yp)
    IN  IF Len(yt) = 0 THEN {Raise, Ratio(0, 1)}
        ELSE IF Cardinality(present) > 2 THEN {Raise}
        ELSE IF PosLabel \notin present /\ Cardinality(present) >= 2 THEN {Raise}
        ELSE {F1Value(yt, yp)}

F1Line(v) == [kind |-> "f1", value |-> v]
AccLine(v) == [kind |-> "accuracy", value |-> v]

\* (label == predicted).sum().item()
Matches(lab, pred) == Cardinality({k \in 1..Len(lab) : lab[k] = pred[k]})

\* ----------------------------------------------------------------- evaluate
\* model.eval(); with torch.no_grad(): correct = 0; total = 0; y_true = []; ...
EvalBegin ==
    /\ pc = "e_begin"
    /\ training' = FALSE
    /\ grad_enabled' = FALSE
    /\ correct' = 0
    /\ total' = 0
    /\ y_true' = <<>>
    /\ y_pred' = <<>>
    /\ i' = 0
    /\ val_n' \in 0..MaxValN
    /\ pc' = "e_fetch"
    /\ UNCHANGED <<cfgVars, exc, epoch, batchVars, loss, ops, grad, params,
                   trainVars, outVars, val_seen, predicted>>

\* for images, labels in val_loader: label, cov_attr
EvalFetch ==
    /\ pc = "e_fetch"
    /\ IF i < val_n
       THEN /\ \E rows \in Rows(BatchSize(val_n, batch_size, i)) :
                 /\ labels' = rows
                 /\ label' = LabelOf(rows)
                 /\ cov_attr' = CovOf(rows)
                 /\ val_seen' = val_seen \o LabelOf(rows)
                 /\ i' = i + Len(rows)
            /\ pc' = "e_forward"
       ELSE /\ pc' = "e_console"
            /\ UNCHANGED <<batchVars, val_seen, i>>
    /\ UNCHANGED <<cfgVars, exc, epoch, loss, ops, grad, params, training,
                   grad_enabled, trainVars, outVars, val_n, y_true, y_pred,
                   correct, total, predicted>>

\* The forward pass of evaluate followed by the training loop's update.
EvalForwardAndStep ==
    /\ pc = "e_forward"
    /\ predicted' \in [1..Len(label) -> 0..(num_classes - 1)]
    /\ params' = Append(params, {<<epoch, i>>})
    /\ pc' = "e_accum"
    /\ UNCHANGED <<cfgVars, exc, epoch, i, batchVars, loss, ops, grad,
                   training, grad_enabled, trainVars, outVars, val_n, val_seen,
                   y_true, y_pred, correct, total>>

\* outputs = model(images); _, predicted = torch.max(outputs.data, 1)
EvalForward ==
    /\ pc = "e_forward"
    /\ predicted' \in [1..Len(label) -> 0..(num_classes - 1)]
    /\ pc' = "e_accum"
    /\ UNCHANGED <<cfgVars, exc, epoch, i, batchVars, loss, ops, grad, params,
                   training, grad_enabled, trainVars, outVars, val_n, val_seen,
                   y_true, y_pred, correct, total>>

\* y_true.append(label.item()); y_pred.append(predicted.item()); total += ...
\* Tensor.item() raises unless the tensor holds exactly one element.
EvalAccumulate ==
    /\ pc = "e_accum"
    /\ IF Len(label) = 1
       THEN /\ y_true' = Append(y_true, label[1])
            /\ y_pred' = Append(y_pred, predicted[1])
            /\ total' = total + Len(label)
            /\ correct' = correct + Matches(label, predicted)
            /\ pc' = "e_fetch"
            /\ UNCHANGED exc
       ELSE /\ pc' = "error"
            /\ exc' = "ValueError: item"
            /\ UNCHANGED <<y_true, y_pred, total, correct>>
    /\ UNCHANGED <<cfgVars, epoch, i, batchVars, loss, ops, grad, params,
                   training, grad_enabled, trainVars, outVars, val_n, val_seen,
                   predicted>>

\* print('F1 Score: ...'); print('Validation accuracy: ...'.format(correct / total))
EvalConsole ==
    /\ pc = "e_console"
    /\ \E f \in F1Outcomes(y_true, y_pred) :
          IF f = Raise
          THEN /\ pc' = "error"
               /\ exc' = "ValueError: f1_score"
               /\ UNCHANGED console
          ELSE IF total = 0
          THEN /\ console' = Append(console, F1Line(f))
               /\ pc' = "error"
               /\ exc' = "ZeroDivisionError"
          ELSE /\ console' = console \o
                     <<F1Line(f), AccLine(Ratio(correct, total))>>
               /\ pc' = "e_file"
               /\ UNCHANGED exc
    /\ UNCHANGED <<cfgVars, epoch, i, batchVars, loss, ops, grad, params,
                   training, grad_enabled, trainVars, logfile, evalVars>>

\* with open(experiment_name+'.txt', 'a') as f: print(F1); print(accuracy, file=f)
EvalFile ==
    /\ pc = "e_file"
    /\ console' = Append(console, F1Line(F1Value(y_true, y_pred)))
    /\ logfile' = Append(logfile, AccLine(Ratio(correct, total)))
    /\ grad_enabled' = TRUE
    /\ pc' = "done"
    /\ UNCHANGED <<cfgVars, exc, epoch, i, batchVars, loss, ops, grad, params,
                   training, trainVars, evalVars>>

\* --------------------------------------------------------------- properties
TrainPcs == {"t_epoch", "t_fetch", "t_forward", "t_loss", "t_zero",
             "t_backward", "t_step", "t_log", "t_plot", "t_save"}
EvalPcs == {"e_begin", "e_fetch", "e_forward", "e_accum", "e_console", "e_file"}

\* The program is inside train, or train raised.
InTrain == pc \in TrainPcs \/ (pc = "error" /\ training)

\* train has returned.
TrainReturned == run_train /\ (pc \in EvalPcs \cup {"done"} \/ (pc = "error" /\ ~training))

\* Number of lines of the given kind in a file.
CountKind(file, kind) == Cardinality({k \in 1..Len(file) : file[k].kind = kind})

\* C7: in train and in evaluate alike, the covariate of every element of the
\* batch is the gender attribute remapped by floor division: -1 to 0 and 1 to
\* 1, so it always lies in {0, 1}.
C7_CovariateRemap ==
    /\ Len(cov_attr) = Len(labels)
    /\ \A k \in 1..Len(labels) :
          /\ labels[k].gender = -1 => cov_attr[k] = 0
          /\ labels[k].gender = 1 => cov_attr[k] = 1
          /\ cov_attr[k] \in {0, 1}

\* C7 witness: evaluate, entered after a training run that took optimizer
\* steps, holds a batch with both source values remapped.
C7_Witness ==
    /\ pc = "e_forward"
    /\ Len(params) > 0
    /\ \E k \in 1..Len(labels) : labels[k].gender = -1 /\ cov_attr[k] = 0
    /\ \E k \in 1..Len(labels) : labels[k].gender = 1 /\ cov_attr[k] = 1

\* C8: the target handed to the loss function in train, and the label
\* compared with the prediction in evaluate, is a class index in
\* 0..num_classes-1.
C8_TargetIsClassIndex ==
    (pc \in {"t_loss", "e_accum"}) =>
        \A k \in 1..Len(label) : label[k] \in 0..(num_classes - 1)

\* C1: when evaluate completes, the F1 score and the accuracy have each been
\* written to the console, and the log file has gained one F1 line and one
\* accuracy line.
C1_BothReportedAndLogged ==
    pc = "done" =>
        /\ CountKind(console, "f1") >= 1
        /\ CountKind(console, "accuracy") >= 1
        /\ CountKind(logfile, "f1") = 1
        /\ CountKind(logfile, "accuracy") = 1

\* C2: the accumulation loop of evaluate never raises, and when it is over it
\* holds one (true, predicted) pair per sample of the split, in the split's
\* order: len(y_true) = len(y_pred) = total = N.
C2_OnePairPerSample ==
    /\ exc # "ValueError: item"
    /\ pc = "e_console" =>
          /\ Len(y_true) = val_n
          /\ Len(y_pred) = val_n
          /\ total = val_n
          /\ y_true = val_seen

\* C3: 0 <= correct <= total throughout, and once the loop of evaluate is over
\* the accuracy correct / total, a value in [0, 1], is reported: the report
\* does not raise.
C3_AccuracyReported ==
    /\ 0 <= correct /\ correct <= total
    /\ exc # "ZeroDivisionError"
    /\ pc \in {"e_file", "done"} =>
          /\ total > 0
          /\ \E k \in 1..Len(console) :
                /\ console[k] = AccLine(Ratio(correct, total))
                /\ console[k].value[1] <= console[k].value[2]

\* ceil(n / b) = -floor(-n / b).
CeilDiv(n, b) == 0 - ((0 - n) \div b)

\* Batches per epoch of the training split.
K == CeilDiv(train_n, batch_size)

\* Batches of the current epoch that have passed the logging test.
BatchesLogged == IF pc \in {"t_epoch", "t_save"} THEN 0 ELSE i

\* The steps 100, 200, ... up to n.
StepsUpTo(n) == [k \in 1..(n \div LogInterval) |-> k * LogInterval]

\* C4: during train, the log file holds exactly one progress line per batch
\* whose 1-based step is a multiple of 100, in increasing order within each
\* epoch, floor(K/100) lines per finished epoch; the console holds the same
\* lines; the plotting history of the epoch holds the same steps and the
\* losses the lines show.
C4_ProgressEveryHundredth ==
    InTrain =>
        LET nb == K
            lpe == nb \div LogInterval
        IN  /\ Len(logfile) = epoch * lpe + BatchesLogged \div LogInterval
            /\ \A n \in 1..Len(logfile) :
                  /\ logfile[n].kind = "progress"
                  /\ logfile[n].epoch = (n - 1) \div lpe + 1
                  /\ logfile[n].step = (((n - 1) % lpe) + 1) * LogInterval
                  /\ logfile[n].num_epochs = num_epochs
                  /\ logfile[n].len = nb
            /\ console = logfile
            /\ step_hist = StepsUpTo(i)
            /\ Len(loss_hist) = Len(step_hist)
            /\ pc \notin {"t_epoch", "t_save"} =>
                  \A k \in 1..Len(step_hist) :
                     logfile[epoch * lpe + k].loss = Fmt4(loss_hist[k])

\* C4 witness: the second epoch of a run has logged steps 100 and 200.
C4_Witness ==
    /\ pc = "t_plot"
    /\ epoch = 1
    /\ step_hist = <<100, 200>>
    /\ Len(logfile) = 4

\* C5: the checkpoint is written once, when train returns and not before:
\* never during or between epochs; it is written after the last optimizer
\* step and the last render, and holds the parameters as that step left them.
C5_CheckpointOnceAtEnd ==
    /\ ckpt_writes = (IF TrainReturned THEN 1 ELSE 0)
    /\ ckpt_writes = 0 => ckpt = NoFile
    /\ ckpt_writes = 1 =>
          /\ ckpt = params
          /\ Len(params) = num_epochs * K
          /\ plot_writes = num_epochs

\* C5 witness: a two-epoch run with optimizer steps has returned from train.
C5_Witness ==
    /\ pc = "e_begin"
    /\ num_epochs = 2
    /\ Len(params) > 2
    /\ ckpt = params
    /\ ckpt_writes = 1

\* C6: no step of evaluate changes the parameters, the gradients or the
\* record of training steps, and the parameters change only in the optimizer
\* step of train.
C6_EvaluateLeavesParameters ==
    [][/\ pc \in EvalPcs => (params' = params /\ grad' = grad /\ ops' = ops)
       /\ params' # params => (pc = "t_step" /\ pc' = "t_log")]_vars

\* C6 witness: evaluate has returned after a training run, over a split with
\* samples, with the parameters the checkpoint recorded before it.
C6_Witness ==
    /\ pc = "done"
    /\ total > 0
    /\ Len(params) > 0
    /\ params = ckpt

\* C9: each batch of train goes through forward, loss, zero_grad, backward,
\* step in this order, once each; every optimizer step applies the gradient of
\* its own batch alone; and the optimizer steps number one per batch, K =
\* ceil(N / B) per epoch, num_epochs * K when train returns.
C9_BatchStepOrder ==
    LET nb == K
    IN  /\ pc = "t_forward" => ops = <<>>
        /\ pc = "t_loss" => ops = <<"forward">>
        /\ pc = "t_zero" => ops = <<"forward", "loss">>
        /\ pc = "t_backward" => ops = <<"forward", "loss", "zero_grad">>
        /\ pc = "t_step" => ops = <<"forward", "loss", "zero_grad", "backward">>
        /\ pc = "t_log" =>
              ops = <<"forward", "loss", "zero_grad", "backward", "step">>
        /\ pc = "t_step" => grad = {<<epoch, i>>}
        /\ pc \in {"t_log", "t_save"} =>
              \A n \in 1..Len(params) :
                 params[n] = {<<(n - 1) \div nb, (n - 1) % nb>>}
        /\ pc \in {"t_fetch", "t_forward", "t_loss", "t_zero", "t_backward",
                   "t_step", "t_plot"} => Len(params) = epoch * nb + i
        /\ pc = "t_plot" => i = nb
        /\ pc = "t_log" => Len(params) = epoch * nb + i + 1
        /\ pc = "t_epoch" => Len(params) = epoch * nb
        /\ (pc = "t_save" \/ TrainReturned) => Len(params) = num_epochs * nb

\* C9 witness: train has returned from two epochs of 101 batches, the last
\* batch smaller than the others.
C9_Witness ==
    /\ TrainReturned
    /\ num_epochs = 2
    /\ batch_size = 2
    /\ train_n = MaxTrainN
    /\ Len(params) = 2 * K

\* C10: the loss curve has been rendered once per finished epoch; the file
\* holds one curve, titled with the 1-based number of the last finished epoch,
\* whose points are the steps and losses that epoch logged, all of its
\* batches included.
C10_PlotPerEpoch ==
    /\ plot_writes = epoch
    /\ figure = <<>>
    /\ epoch = 0 => plot_file = NoFile
    /\ epoch > 0 =>
          LET nb == K
              lpe == nb \div LogInterval
              curve == plot_file.curves[1]
          IN  /\ plot_file.title = epoch
              /\ Len(plot_file.curves) = 1
              /\ curve.xs = StepsUpTo(nb)
              /\ Len(curve.ys) = lpe
              /\ \A k \in 1..lpe :
                    LET line == logfile[(epoch - 1) * lpe + k]
                    IN  /\ line.epoch = epoch
                        /\ line.step = curve.xs[k]
                        /\ line.loss = Fmt4(curve.ys[k])

\* C10 witness: the second epoch's render has replaced the first's, and the
\* two epochs logged different losses at step 100.
C10_Witness ==
    /\ pc = "t_epoch"
    /\ epoch = 2
    /\ plot_file.title = 2
    /\ Len(plot_file.curves[1].xs) = 2
    /\ logfile[1].loss # logfile[3].loss

Next ==
    \/ Main
    \/ TrainEpoch
    \/ TrainFetch
    \/ TrainForward
    \/ TrainLoss
    \/ TrainZeroGrad
    \/ TrainBackward
    \/ TrainStep
    \/ TrainLog
    \/ TrainPlot
    \/ TrainSave
    \/ EvalBegin
    \/ EvalFetch
    \/ EvalForward
    \/ EvalAccumulate
    \/ EvalConsole
    \/ EvalFile

Spec == Init /\ [][Next]_vars
====
